---- MODULE Spec2Model ----
(***************************************************************************)
(* A model of src/src/database_utils/__init__.py: the RobotDatabase data   *)
(* access object over one SQLite store file, and the path-parameterized    *)
(* helper functions built on it.                                           *)
(*                                                                         *)
(* Python values are tagged records so that None, [], False and a row are  *)
(* all different values, as they are in Python.                            *)
(***************************************************************************)
EXTENDS Integers, Sequences, FiniteSets, TLC

VARIABLES
    tables,     \* the tables that exist in the store file
    goals,      \* rows of table goals, in rowid order
    objects,    \* rows of table objects, in rowid order
    conn,       \* RobotDatabase.conn   (the one shared DAO instance)
    cursor,     \* RobotDatabase.cursor
    handles,    \* connections the engine holds open
    ret,        \* how the last finished sequential call ended
    issued,     \* history: the arguments of every add_goal that inserted, with the id given
    th          \* SpecConc only: the in-flight call of each thread

vars == <<tables, goals, objects, conn, cursor, handles, ret, issued, th>>

----------------------------------------------------------------------------
(* Bounds of the model *)

MaxRows == 3
MaxCalls == 2

Robots == {1, 2}
Times == {100, 200, 300}
Xs == {2}
Ys == {5}
Thetas == {9}
Limits == (0 - 1) .. 2
Classes == {"cup", "box"}
\* what goes wrong in a call: nothing; the store file cannot be opened;
\* the engine fails the statement (sqlite3.Error); a parameter is rejected
\* with an exception that is no sqlite3.Error (OverflowError)
Faults == {"none", "open", "stmt", "exc"}
SchemaFaults == {"none", "open", "stmt"}
Threads == {"T1", "T2"}
MainThread == "T1"

----------------------------------------------------------------------------
(* Python values *)

PyNone == [tag |-> "None"]
PyBool(b) == [tag |-> "bool", b |-> b]
PyInt(n) == [tag |-> "int", n |-> n]
PyStr(s) == [tag |-> "str", s |-> s]
PyList(s) == [tag |-> "list", items |-> s]
PyDict(r) == [tag |-> "dict", row |-> r]
NoValue == [tag |-> "exception"]

\* Python truth value of an optional string argument: None and "" are false
Truthy(v) == v.tag = "str" /\ v.s # ""

Min(a, b) == IF a <= b THEN a ELSE b

----------------------------------------------------------------------------
(* The engine: connections *)

\* sqlite3.connect(self.db_path): a fresh connection, bound to the calling
\* thread (check_same_thread defaults to True)
NewHandle(hs, t) ==
    [tag |-> "conn", id |-> (CHOOSE n \in 1 .. (Cardinality(hs) + 1) :
                                \A h \in hs : h.id # n),
     thread |-> t]

\* RobotDatabase.connect, run by thread t on the instance fields i.
\* When the store cannot be opened sqlite3.connect raises and the fields are
\* left as they were.
connect(i, t, fault) ==
    IF fault = "open"
    THEN [conn |-> i.conn, cursor |-> i.cursor, handles |-> i.handles,
          raised |-> TRUE]
    ELSE LET h == NewHandle(i.handles, t) IN
         [conn |-> h, cursor |-> h, handles |-> i.handles \cup {h},
          raised |-> FALSE]

\* close that releases the connection and keeps the fields
close_keeps_fields(i) ==
    IF i.conn # PyNone
    THEN [conn |-> i.conn, cursor |-> i.cursor, handles |-> i.handles \ {i.conn}]
    ELSE [conn |-> i.conn, cursor |-> i.cursor, handles |-> i.handles]

\* RobotDatabase.close on the instance fields i (called from the thread that
\* owns i.conn)
close(i) ==
    IF i.conn # PyNone
    THEN [conn |-> PyNone, cursor |-> PyNone, handles |-> i.handles \ {i.conn}]
    ELSE [conn |-> i.conn, cursor |-> i.cursor, handles |-> i.handles]

Fields == [conn |-> conn, cursor |-> cursor, handles |-> handles]

----------------------------------------------------------------------------
(* The engine: statements *)

\* the rows of S oldest first (ORDER BY timestamp ASC)
OrderByTimestampAsc(S) ==
    {s \in [1 .. Cardinality(S) -> S] :
        /\ \A i, j \in 1 .. Cardinality(S) : i # j => s[i] # s[j]
        /\ \A i, j \in 1 .. Cardinality(S) : i < j => s[i].timestamp <= s[j].timestamp}

\* all orders of the rows of set S with timestamp non-increasing
\* (ORDER BY timestamp DESC; rows of equal timestamp come in any order)
OrderByTimestampDesc(S) ==
    {s \in [1 .. Cardinality(S) -> S] :
        /\ \A i, j \in 1 .. Cardinality(S) : i # j => s[i] # s[j]
        /\ \A i, j \in 1 .. Cardinality(S) : i < j => s[i].timestamp >= s[j].timestamp}

\* LIMIT n with a negative n read as LIMIT 0
SqlLimitClamped(s, n) ==
    IF n < 0 THEN <<>> ELSE SubSeq(s, 1, Min(n, Len(s)))

\* LIMIT n: SQLite puts no upper bound on the rows when n is negative
SqlLimit(s, n) ==
    IF n < 0 THEN s ELSE SubSeq(s, 1, Min(n, Len(s)))

Range(s) == {s[i] : i \in 1 .. Len(s)}

\* the SELECT on goals without its WHERE clause
SelectGoalsOfAll(robot_id, limit) ==
    {SqlLimit(s, limit) : s \in OrderByTimestampDesc(Range(goals))}

\* SELECT ... FROM goals WHERE robot_id = ? ORDER BY timestamp DESC LIMIT ?
SelectGoals(robot_id, limit) ==
    {SqlLimit(s, limit) :
        s \in OrderByTimestampDesc({g \in Range(goals) : g.robot_id = robot_id})}

\* the WHERE clause get_recent_objects builds
ObjectMatches(o, class_name, robot_id) ==
    /\ Truthy(class_name) => o.class_name = class_name.s
    /\ robot_id # PyNone => o.robot_id = robot_id

\* SELECT ... FROM objects [WHERE ...] ORDER BY timestamp DESC LIMIT ?
SelectObjects(limit, class_name, robot_id) ==
    {SqlLimit(s, limit) :
        s \in OrderByTimestampDesc(
                {o \in Range(objects) : ObjectMatches(o, class_name, robot_id)})}

\* INSERT INTO goals (robot_id, x, y, theta, timestamp): goal_id INTEGER
\* PRIMARY KEY is the next rowid
InsertGoal(robot_id, x, y, theta, timestamp) ==
    Append(goals, [goal_id |-> Len(goals) + 1, robot_id |-> robot_id,
                   x |-> x, y |-> y, theta |-> theta, timestamp |-> timestamp])

\* INSERT INTO objects (class_name, x, y, robot_id, timestamp)
InsertObject(class_name, x, y, robot_id, timestamp) ==
    Append(objects, [object_id |-> Len(objects) + 1, class_name |-> class_name,
                     x |-> x, y |-> y, robot_id |-> robot_id,
                     timestamp |-> timestamp])

\* does the statement on table tbl raise sqlite3.Error?  It does when the
\* engine fails (disk full, locked file) or the table does not exist.
StatementFails(tbl, fault) == fault = "stmt" \/ tbl \notin tables

\* room left in the bounded store
Room == Len(goals) + Len(objects) < MaxRows

----------------------------------------------------------------------------
(* The sequential calls on the DAO: one action per public method *)

\* what a finished call leaves for its caller: err is "none" when the
\* statement ran, "caught" when sqlite3.Error was caught inside the method,
\* "raised" when an exception left the method; opened counts the connections
\* the call opened
Ended(op, args, fault, err, value, opened) ==
    [op |-> op, args |-> args, fault |-> fault, err |-> err, value |-> value,
     opened |-> opened]

\* the exit of a method: "raised" out of connect, "raised" by a non-sqlite3
\* exception in execute (OverflowError for an integer SQLite cannot hold),
\* "caught" for sqlite3.Error, else "none"
ExitOf(c, tbl, fault) ==
    IF c.raised THEN "raised"
    ELSE IF fault = "exc" THEN "raised"
    ELSE IF StatementFails(tbl, fault) THEN "caught"
    ELSE "none"

\* the finally clause: self.close() runs on every exit of the try statement;
\* connect is called before the try statement is entered
Finally(c) == IF c.raised THEN c ELSE close(c)

Opened(c) == Cardinality(c.handles \ handles)

SetFields(f) ==
    /\ conn' = f.conn
    /\ cursor' = f.cursor
    /\ handles' = f.handles

\* the value a method hands back on each exit; a call that raised hands
\* back no value
Returned(err, ok, sentinel) ==
    IF err = "none" THEN ok ELSE IF err = "caught" THEN sentinel ELSE NoValue

create_goals_table(fault) ==
    LET c == connect(Fields, MainThread, fault)
        err == IF c.raised THEN "raised"
               ELSE IF fault = "stmt" THEN "caught"
               ELSE "none"
    IN  /\ SetFields(Finally(c))
        /\ tables' = IF err = "none" THEN tables \cup {"goals"} ELSE tables
        /\ ret' = Ended("create_goals_table", <<>>, fault, err,
                        Returned(err, PyBool(TRUE), PyBool(FALSE)), Opened(c))
        /\ UNCHANGED <<goals, objects, issued, th>>

create_objects_table(fault) ==
    LET c == connect(Fields, MainThread, fault)
        err == IF c.raised THEN "raised"
               ELSE IF fault = "stmt" THEN "caught"
               ELSE "none"
    IN  /\ SetFields(Finally(c))
        /\ tables' = IF err = "none" THEN tables \cup {"objects"} ELSE tables
        /\ ret' = Ended("create_objects_table", <<>>, fault, err,
                        Returned(err, PyBool(TRUE), PyBool(FALSE)), Opened(c))
        /\ UNCHANGED <<goals, objects, issued, th>>

\* add_goal has no return statement on the path where the insert is
\* committed: the method ends after the finally clause and yields None
add_goal(robot_id, x, y, theta, timestamp, fault) ==
    LET c == connect(Fields, MainThread, fault)
        err == ExitOf(c, "goals", fault)
    IN  /\ Room
        /\ SetFields(Finally(c))
        /\ goals' = IF err = "none"
                    THEN InsertGoal(robot_id, x, y, theta, timestamp)
                    ELSE goals
        /\ issued' = IF err = "none"
                     THEN issued \cup {[goal_id |-> Len(goals) + 1,
                                        robot_id |-> robot_id, x |-> x, y |-> y,
                                        theta |-> theta, timestamp |-> timestamp]}
                     ELSE issued
        /\ ret' = Ended("add_goal",
                        [robot_id |-> robot_id, x |-> x, y |-> y,
                         theta |-> theta, timestamp |-> timestamp],
                        fault, err, Returned(err, PyNone, PyNone), Opened(c))
        /\ UNCHANGED <<tables, objects, th>>

\* the dictionary get_latest_goal and get_goal_history build from a fetched
\* tuple (goal_id, robot_id, x, y, theta, timestamp)
GoalDict(goal) ==
    [goal_id |-> goal[1], robot_id |-> goal[2], x |-> goal[3], y |-> goal[4],
     theta |-> goal[5], timestamp |-> goal[6]]

\* the column list of the SELECT on goals
GoalColumns(g) == <<g.goal_id, g.robot_id, g.x, g.y, g.theta, g.timestamp>>

get_latest_goal(robot_id, fault) ==
    LET c == connect(Fields, MainThread, fault)
        err == ExitOf(c, "goals", fault)
    IN  /\ SetFields(Finally(c))
        /\ \E s \in IF err = "none" THEN SelectGoals(robot_id, 1) ELSE {<<>>} :
              LET goal == IF s = <<>> THEN PyNone
                          ELSE PyDict(GoalDict(GoalColumns(s[1])))
              IN ret' = Ended("get_latest_goal", [robot_id |-> robot_id],
                              fault, err, Returned(err, goal, PyNone), Opened(c))
        /\ UNCHANGED <<tables, goals, objects, issued, th>>

get_goal_history(robot_id, limit, fault) ==
    LET c == connect(Fields, MainThread, fault)
        err == ExitOf(c, "goals", fault)
    IN  /\ SetFields(Finally(c))
        /\ \E s \in IF err = "none" THEN SelectGoals(robot_id, limit) ELSE {<<>>} :
              LET result == [i \in 1 .. Len(s) |-> GoalDict(GoalColumns(s[i]))]
              IN ret' = Ended("get_goal_history",
                              [robot_id |-> robot_id, limit |-> limit],
                              fault, err,
                              Returned(err, PyList(result), PyList(<<>>)),
                              Opened(c))
        /\ UNCHANGED <<tables, goals, objects, issued, th>>

\* add_object, like add_goal, yields None on every path
add_object(class_name, x, y, robot_id, timestamp, fault) ==
    LET c == connect(Fields, MainThread, fault)
        err == ExitOf(c, "objects", fault)
    IN  /\ Room
        /\ SetFields(Finally(c))
        /\ objects' = IF err = "none"
                      THEN InsertObject(class_name, x, y, robot_id, timestamp)
                      ELSE objects
        /\ ret' = Ended("add_object",
                        [class_name |-> class_name, x |-> x, y |-> y,
                         robot_id |-> robot_id, timestamp |-> timestamp],
                        fault, err, Returned(err, PyNone, PyNone), Opened(c))
        /\ UNCHANGED <<tables, goals, issued, th>>

\* the dictionary get_recent_objects builds from a fetched tuple
ObjectDict(obj) ==
    [object_id |-> obj[1], class_name |-> obj[2], x |-> obj[3], y |-> obj[4],
     robot_id |-> obj[5], timestamp |-> obj[6]]

\* the column list of the SELECT on objects
ObjectColumns(o) ==
    <<o.object_id, o.class_name, o.x, o.y, o.robot_id, o.timestamp>>

get_recent_objects(limit, class_name, robot_id, fault) ==
    LET c == connect(Fields, MainThread, fault)
        err == ExitOf(c, "objects", fault)
    IN  /\ SetFields(Finally(c))
        /\ \E s \in IF err = "none" THEN SelectObjects(limit, class_name, robot_id)
                    ELSE {<<>>} :
              LET result == [i \in 1 .. Len(s) |-> ObjectDict(ObjectColumns(s[i]))]
              IN ret' = Ended("get_recent_objects",
                              [limit |-> limit, class_name |-> class_name,
                               robot_id |-> robot_id],
                              fault, err,
                              Returned(err, PyList(result), PyList(<<>>)),
                              Opened(c))
        /\ UNCHANGED <<tables, goals, objects, issued, th>>

----------------------------------------------------------------------------
(* The helper functions that take a store path *)

\* the methods class RobotDatabase defines
Methods ==
    {"__init__", "connect", "close", "create_goals_table",
     "create_objects_table", "add_goal", "get_latest_goal", "get_goal_history",
     "add_object", "get_recent_objects"}

\* "with RobotDatabase(db_path) as db:" needs __enter__ and __exit__; without
\* them the with statement raises (AttributeError, or TypeError from Python
\* 3.11 on) before its body runs, and the helper's "except Exception" takes
\* over
WithEnters == {"__enter__", "__exit__"} \subseteq Methods

\* what is left of the store and the DAO by a helper whose with statement
\* raised: nothing was opened and nothing stored.  The body of the with
\* statement is unreachable and is not modelled.
Untouched == UNCHANGED <<tables, goals, objects, conn, cursor, handles, issued, th>>

initialize_database(fault) ==
    /\ ~WithEnters
    /\ ret' = Ended("initialize_database", <<>>, fault, "caught", PyBool(FALSE), 0)
    /\ Untouched

add_robot_goal(robot_id, x, y, theta, fault) ==
    /\ ~WithEnters
    /\ ret' = Ended("add_robot_goal",
                    [robot_id |-> robot_id, x |-> x, y |-> y, theta |-> theta],
                    fault, "caught", PyNone, 0)
    /\ Untouched

get_robot_goal(robot_id, fault) ==
    /\ ~WithEnters
    /\ ret' = Ended("get_robot_goal", [robot_id |-> robot_id], fault, "caught",
                    PyNone, 0)
    /\ Untouched

get_robot_goal_history(robot_id, limit, fault) ==
    /\ ~WithEnters
    /\ ret' = Ended("get_robot_goal_history",
                    [robot_id |-> robot_id, limit |-> limit], fault, "caught",
                    PyList(<<>>), 0)
    /\ Untouched

add_detected_object(class_name, x, y, theta, robot_id, fault) ==
    /\ ~WithEnters
    /\ ret' = Ended("add_detected_object",
                    [class_name |-> class_name, x |-> x, y |-> y,
                     theta |-> theta, robot_id |-> robot_id],
                    fault, "caught", PyNone, 0)
    /\ Untouched

get_recent_detected_objects(limit, class_name, robot_id, fault) ==
    /\ ~WithEnters
    /\ ret' = Ended("get_recent_detected_objects",
                    [limit |-> limit, class_name |-> class_name,
                     robot_id |-> robot_id],
                    fault, "caught", PyList(<<>>), 0)
    /\ Untouched

----------------------------------------------------------------------------
(* The sequential specifications: one caller, one call at a time *)

\* optional arguments as a caller passes them
OptRobots == {PyNone} \cup {PyInt(r) : r \in Robots}
OptClasses == {PyNone, PyStr(""), PyStr("cup")}

\* a thread with no call in flight: pc is the step its call is at, mine the
\* connection the call opened, used the cursor its statement ran on, err how
\* the call is ending, calls the calls the thread has made
Idle ==
    [t \in Threads |->
        [pc |-> "idle", op |-> "none", mine |-> PyNone, used |-> PyNone,
         err |-> "none", calls |-> 0]]

\* RobotDatabase.__init__ on a new store file
Init ==
    /\ tables = {}
    /\ goals = <<>>
    /\ objects = <<>>
    /\ conn = PyNone
    /\ cursor = PyNone
    /\ handles = {}
    /\ ret = Ended("__init__", <<>>, "none", "none", PyNone, 0)
    /\ issued = {}
    /\ th = Idle

\* a caller of every DAO method, with every fault, on few data
Next ==
    \/ \E f \in SchemaFaults : create_goals_table(f)
    \/ \E f \in SchemaFaults : create_objects_table(f)
    \/ \E x \in Xs, y \in Ys, a \in Thetas, ts \in {100, 200}, f \in Faults :
          add_goal(1, x, y, a, ts, f)
    \/ \E f \in Faults : get_latest_goal(1, f)
    \/ \E n \in {0 - 1, 1}, f \in Faults : get_goal_history(1, n, f)
    \/ \E x \in Xs, y \in Ys, f \in Faults :
          add_object("cup", x, y, PyInt(1), 100, f)
    \/ \E f \in Faults : get_recent_objects(1, PyNone, PyNone, f)

Spec == Init /\ [][Next]_vars

\* a caller of the goal repository
QueryFaults == {"none", "stmt"}

NextGoals ==
    \/ \E f \in QueryFaults : create_goals_table(f)
    \/ \E r \in Robots, x \in Xs, y \in Ys, a \in Thetas, ts \in Times,
          f \in QueryFaults :
          add_goal(r, x, y, a, ts, f)
    \/ \E r \in Robots, f \in QueryFaults : get_latest_goal(r, f)
    \/ \E r \in Robots, n \in Limits, f \in QueryFaults : get_goal_history(r, n, f)

SpecGoals == Init /\ [][NextGoals]_vars

\* a caller of the object repository
MaxObjects == 2
ObjectTimes == {100, 200}
ObjectLimits == 0 .. 2

NextObjects ==
    \/ \E f \in QueryFaults : create_objects_table(f)
    \/ \E c \in Classes, x \in Xs, y \in Ys, r \in OptRobots, ts \in ObjectTimes,
          f \in QueryFaults :
          /\ Len(objects) < MaxObjects
          /\ add_object(c, x, y, r, ts, f)
    \/ \E n \in ObjectLimits, c \in OptClasses, r \in OptRobots, f \in QueryFaults :
          get_recent_objects(n, c, r, f)

SpecObjects == Init /\ [][NextObjects]_vars

\* a caller of the helper functions, on a store that DAO calls fill
HelperFaults == {"none", "open"}

NextHelpers ==
    \/ create_goals_table("none")
    \/ create_objects_table("none")
    \/ \E r \in Robots, x \in Xs, y \in Ys, a \in Thetas, ts \in Times :
          add_goal(r, x, y, a, ts, "none")
    \/ \E x \in Xs, y \in Ys : add_object("cup", x, y, PyInt(1), 100, "none")
    \/ \E f \in HelperFaults : initialize_database(f)
    \/ \E r \in Robots, x \in Xs, y \in Ys, a \in Thetas, f \in HelperFaults :
          add_robot_goal(r, x, y, a, f)
    \/ \E r \in Robots, f \in HelperFaults : get_robot_goal(r, f)
    \/ \E r \in Robots, n \in Limits, f \in HelperFaults :
          get_robot_goal_history(r, n, f)
    \/ \E x \in Xs, y \in Ys, a \in Thetas, f \in HelperFaults :
          add_detected_object("cup", x, y, a, PyInt(1), f)
    \/ \E n \in ObjectLimits, f \in HelperFaults :
          get_recent_detected_objects(n, PyStr("cup"), PyNone, f)

SpecHelpers == Init /\ [][NextHelpers]_vars

----------------------------------------------------------------------------
(* Concurrent calls on one RobotDatabase instance: each thread runs add_goal *)
(* or get_latest_goal one statement at a time; the threads share the        *)
(* instance fields conn and cursor.  A connection is bound to the thread    *)
(* that opened it: sqlite3 raises ProgrammingError, a sqlite3.Error, when   *)
(* another thread uses or closes it.                                        *)

ConcOps == {"add_goal", "get_latest_goal"}

\* the call is made
Call(t, op) ==
    /\ th[t].pc = "idle"
    /\ th[t].calls < MaxCalls
    /\ th' = [th EXCEPT ![t] = [pc |-> "connect", op |-> op, mine |-> PyNone,
                                used |-> PyNone, err |-> "none",
                                calls |-> th[t].calls + 1]]
    /\ UNCHANGED <<tables, goals, objects, conn, cursor, handles, ret, issued>>

\* self.connect()
Connect(t) ==
    /\ th[t].pc = "connect"
    /\ LET c == connect(Fields, t, "none") IN
          /\ SetFields(c)
          /\ th' = [th EXCEPT ![t].pc = "execute", ![t].mine = c.conn]
    /\ UNCHANGED <<tables, goals, objects, ret, issued>>

\* self.cursor.execute(...): AttributeError when self.cursor is None,
\* ProgrammingError (caught) when the cursor belongs to another thread
Execute(t) ==
    /\ th[t].pc = "execute"
    /\ th' = [th EXCEPT
                ![t].used = cursor,
                ![t].err = IF cursor = PyNone THEN "raised"
                           ELSE IF cursor.thread # t THEN "caught"
                           ELSE "none",
                ![t].pc = IF cursor # PyNone /\ cursor.thread = t
                             /\ th[t].op = "add_goal"
                          THEN "commit" ELSE "close"]
    /\ UNCHANGED <<tables, goals, objects, conn, cursor, handles, ret, issued>>

\* self.conn.commit(): the row is stored when the connection is the thread's
\* own; AttributeError when self.conn is None, ProgrammingError (caught)
\* when it belongs to another thread
Commit(t) ==
    /\ th[t].pc = "commit"
    /\ Room
    /\ goals' = IF conn # PyNone /\ conn.thread = t
                THEN InsertGoal(1, 2, 5, 9, 100) ELSE goals
    /\ th' = [th EXCEPT
                ![t].err = IF conn = PyNone THEN "raised"
                           ELSE IF conn.thread # t THEN "caught"
                           ELSE "none",
                ![t].pc = "close"]
    /\ UNCHANGED <<tables, objects, conn, cursor, handles, ret, issued>>

\* finally: self.close().  Closing another thread's connection raises
\* ProgrammingError out of the finally clause and leaves the fields set.
Close(t) ==
    /\ th[t].pc = "close"
    /\ IF conn # PyNone /\ conn.thread # t
       THEN /\ th' = [th EXCEPT ![t].pc = "idle", ![t].err = "raised"]
            /\ UNCHANGED <<conn, cursor, handles>>
       ELSE /\ th' = [th EXCEPT ![t].pc = "idle"]
            /\ SetFields(close(Fields))
    /\ UNCHANGED <<tables, goals, objects, ret, issued>>

\* a connection no field refers to any more is closed when the runtime
\* collects it
Collect(h) ==
    /\ h \in handles
    /\ h # conn
    /\ h # cursor
    /\ handles' = handles \ {h}
    /\ UNCHANGED <<tables, goals, objects, conn, cursor, ret, issued, th>>

\* an initialized store, and a DAO instance no call has used yet
InitConc ==
    /\ tables = {"goals", "objects"}
    /\ goals = <<>>
    /\ objects = <<>>
    /\ conn = PyNone
    /\ cursor = PyNone
    /\ handles = {}
    /\ ret = Ended("__init__", <<>>, "none", "none", PyNone, 0)
    /\ issued = {}
    /\ th = Idle

NextConc ==
    \/ \E t \in Threads, op \in ConcOps : Call(t, op)
    \/ \E t \in Threads : Connect(t)
    \/ \E t \in Threads : Execute(t)
    \/ \E t \in Threads : Commit(t)
    \/ \E t \in Threads : Close(t)
    \/ \E h \in handles : Collect(h)

SpecConc == InitConc /\ [][NextConc]_vars

----------------------------------------------------------------------------
(* Properties of the sequential calls *)

\* the goals add_goal stored for robot r, as they were passed to it
GoalsOf(r) == {g \in issued : g.robot_id = r}

\* the rows a list result holds
Items == ret.value.items

NewestFirst(s) ==
    \A i, j \in 1 .. Len(s) : i < j => s[i].timestamp >= s[j].timestamp

NoRepeats(s) == \A i, j \in 1 .. Len(s) : i # j => s[i] # s[j]

\* C1: an add_goal (add_object) that inserted its row returns the goal_id
\* (object_id) the store assigned to that row, and None only when the insert
\* failed.
C1_AddReturnsNewId ==
    /\ (ret.op = "add_goal" /\ ret.err = "none")
          => ret.value = PyInt(Len(goals))
    /\ (ret.op = "add_object" /\ ret.err = "none")
          => ret.value = PyInt(Len(objects))
    /\ (ret.op \in {"add_goal", "add_object"} /\ ret.value = PyNone)
          => ret.err # "none"

\* C2: no DAO method ends by raising, whatever fails: it returns its
\* sentinel.
C2_NoOperationRaises ==
    ret.op \in {"create_goals_table", "create_objects_table", "add_goal",
                "get_latest_goal", "get_goal_history", "add_object",
                "get_recent_objects"}
        => /\ ret.err # "raised"
           /\ ret.value # NoValue

\* C3: when a DAO method has ended, on any exit (return, sqlite3.Error
\* caught, exception raised in connect or in the statement), self.conn and
\* self.cursor are None and the engine holds no connection open; the call
\* opened one connection, and none when connect itself raised.
C3_ConnectionReleased ==
    /\ conn = PyNone
    /\ cursor = PyNone
    /\ handles = {}
    /\ ret.op # "__init__" => ret.opened = IF ret.fault = "open" THEN 0 ELSE 1

\* C3's case: a statement raised an exception that is no sqlite3.Error, the
\* exception left the method, and the connection the call opened is closed
C3_Witness ==
    /\ ret.op = "add_goal"
    /\ ret.fault = "exc"
    /\ ret.err = "raised"
    /\ ret.opened = 1
    /\ handles = {}

\* C6: get_latest_goal(r), when its SELECT ran, returns a goal of robot r
\* with the greatest timestamp among the goals inserted for r, with the
\* fields passed to the add_goal that stored it; it returns None exactly
\* when no goal was inserted for r.
C6_LatestGoal ==
    (ret.op = "get_latest_goal" /\ ret.err = "none")
        => IF GoalsOf(ret.args.robot_id) = {}
           THEN ret.value = PyNone
           ELSE /\ ret.value.tag = "dict"
                /\ ret.value.row \in GoalsOf(ret.args.robot_id)
                /\ \A g \in GoalsOf(ret.args.robot_id) :
                      g.timestamp <= ret.value.row.timestamp

\* C6's case: robot r has an older and a newer goal, another robot has a
\* goal newer than both, and get_latest_goal(r) returned r's newer goal
C6_Witness ==
    /\ ret.op = "get_latest_goal"
    /\ ret.err = "none"
    /\ ret.value.tag = "dict"
    /\ \E g \in GoalsOf(ret.args.robot_id) : g.timestamp < ret.value.row.timestamp
    /\ \E g \in issued : /\ g.robot_id # ret.args.robot_id
                         /\ g.timestamp > ret.value.row.timestamp

C10_GoalHistory ==
    (ret.op = "get_goal_history" /\ ret.err = "none" /\ ret.args.limit > 0)
        => /\ ret.value.tag = "list"
           /\ Len(Items) = Min(ret.args.limit, Cardinality(GoalsOf(ret.args.robot_id)))
           /\ Range(Items) \subseteq GoalsOf(ret.args.robot_id)
           /\ NoRepeats(Items)
           /\ NewestFirst(Items)
           /\ \A g \in GoalsOf(ret.args.robot_id) \ Range(Items) :
                 \A i \in 1 .. Len(Items) : g.timestamp <= Items[i].timestamp

\* C10's case: goals with timestamps 100, 300, 200 were inserted in that
\* order for one robot, and a history of limit 2 returned 300, 200
C10_Witness ==
    /\ ret.op = "get_goal_history"
    /\ ret.err = "none"
    /\ ret.args.limit = 2
    /\ Len(goals) = 3
    /\ \A i \in 1 .. 3 : goals[i].robot_id = ret.args.robot_id
    /\ <<goals[1].timestamp, goals[2].timestamp, goals[3].timestamp>> = <<100, 300, 200>>
    /\ Len(Items) = 2
    /\ <<Items[1].timestamp, Items[2].timestamp>> = <<300, 200>>

\* the objects a query with the given filters is to return: a filter that is
\* given (not None) must match, a filter that is None excludes nothing
Wanted(class_name, robot_id) ==
    {o \in Range(objects) :
        /\ class_name # PyNone => o.class_name = class_name.s
        /\ robot_id # PyNone => o.robot_id = robot_id}

\* C8: get_recent_objects with limit > 0, when its SELECT ran, returns
\* min(limit, m) rows, m the number of stored objects matching the filters
\* given, the newest first; every row carries the class_name given and the
\* robot_id given.
C8_RecentObjects ==
    (ret.op = "get_recent_objects" /\ ret.err = "none" /\ ret.args.limit > 0)
        => LET m == Wanted(ret.args.class_name, ret.args.robot_id) IN
           /\ Len(Items) = Min(ret.args.limit, Cardinality(m))
           /\ Range(Items) \subseteq m
           /\ NoRepeats(Items)
           /\ NewestFirst(Items)
           /\ \A o \in m \ Range(Items) :
                 \A i \in 1 .. Len(Items) : o.timestamp <= Items[i].timestamp

\* C4: initialize_database on a store that can be opened returns True, and
\* both tables exist afterwards.
C4_InitializeDatabase ==
    (ret.op = "initialize_database" /\ ret.fault = "none")
        => /\ ret.value = PyBool(TRUE)
           /\ tables = {"goals", "objects"}

\* C5: a helper function has the effect and the result of the DAO method it
\* delegates to: add_robot_goal stores a goal with the arguments given,
\* get_robot_goal returns what get_latest_goal returns, and so on for the
\* others.
C5_HelpersDelegate ==
    /\ (ret.op = "add_robot_goal" /\ ret.fault = "none" /\ "goals" \in tables)
          => /\ goals # <<>>
             /\ LET g == goals[Len(goals)] IN
                <<g.robot_id, g.x, g.y, g.theta>>
                    = <<ret.args.robot_id, ret.args.x, ret.args.y, ret.args.theta>>
    /\ (ret.op = "get_robot_goal" /\ ret.fault = "none" /\ "goals" \in tables)
          => \E s \in SelectGoals(ret.args.robot_id, 1) :
                ret.value = IF s = <<>> THEN PyNone ELSE PyDict(s[1])
    /\ (ret.op = "get_robot_goal_history" /\ ret.fault = "none" /\ "goals" \in tables)
          => \E s \in SelectGoals(ret.args.robot_id, ret.args.limit) :
                ret.value = PyList(s)
    /\ (ret.op = "add_detected_object" /\ ret.fault = "none" /\ "objects" \in tables)
          => /\ objects # <<>>
             /\ LET o == objects[Len(objects)] IN
                <<o.class_name, o.x, o.y, o.robot_id>>
                    = <<ret.args.class_name, ret.args.x, ret.args.y, ret.args.robot_id>>
    /\ (ret.op = "get_recent_detected_objects" /\ ret.fault = "none"
            /\ "objects" \in tables)
          => \E s \in SelectObjects(ret.args.limit, ret.args.class_name,
                                    ret.args.robot_id) :
                ret.value = PyList(s)

\* C9: concurrent calls share no connection and no cursor: a call runs its
\* statement on the cursor it opened itself and on no other, an exception
\* for a handle found None or owned by another call ends no call, and when no
\* call is in flight no connection is open.
C9_NoSharedConnection ==
    /\ \A t \in Threads : th[t].pc \in {"commit", "close", "idle"}
          => th[t].used = th[t].mine
    /\ \A t \in Threads : th[t].err = "none"
    /\ (\A t \in Threads : th[t].pc = "idle") => handles = {}

====
